---- MODULE Spec2Model ----
(***************************************************************************)
(* A model of lua/commit.py: the staged-diff report generator.             *)
(*                                                                         *)
(* Text is modelled as a sequence of one-character strings, so that        *)
(* startswith, the 'in' test, the split at a tab and glob matching are     *)
(* computed on characters as the code computes them.  A report line is a   *)
(* record naming the f-string that produced it and the values put in it.   *)
(***************************************************************************)
EXTENDS Integers, Sequences, FiniteSets

VARIABLES
    args,               \* the parsed command line (main, lines 321-331)
    pc,                 \* where the process is
    repo_root,          \* get_staged_diff's repo_root
    include_patterns,   \* get_staged_diff's include_patterns after defaults
    exclude_patterns,   \* get_staged_diff's exclude_patterns after defaults
    staged_changes,     \* get_staged_diff's staged_changes
    filtered_changes,   \* get_staged_diff's filtered_changes
    output,             \* get_staged_diff's output list
    processed_files,    \* get_staged_diff's processed_files set
    idx,                \* position of the for loop of line 223 (1-based)
    result,             \* main's result
    stdout,             \* what the process wrote to standard output
    stderr,             \* what the process wrote to the error stream
    exit_code,          \* the process's exit code, Running while it runs
    calls,              \* the file-system probes and git invocations made
    call                \* one call of a pure function: arguments and return

vars == <<args, pc, repo_root, include_patterns, exclude_patterns,
          staged_changes, filtered_changes, output, processed_files, idx,
          result, stdout, stderr, exit_code, calls, call>>

pipeline_vars == <<args, pc, repo_root, include_patterns, exclude_patterns,
                   staged_changes, filtered_changes, output, processed_files,
                   idx, result, stdout, stderr, exit_code, calls>>

-----------------------------------------------------------------------------
(* Bounds of the model. *)

\* longest diff handed to get_file_diff
MaxDiffLen == 14
\* longest hunk body of a generated diff
MaxHunk == 3
\* budgets run from -BudgetBelow to MaxDiffLen + 1
BudgetBelow == 2
\* longest include / exclude list handed to should_include_file
MaxPatterns == 2
\* most lines the staged-change lister prints
MaxStaged == 2

(* Program constants. *)

\* line 92: len(header_lines) < 10
HeaderCap == 10
\* line 97: i < 10
LeadingLines == 10
\* line 172 and line 286: the default of max_lines_per_file
DefaultMaxLines == 100

-----------------------------------------------------------------------------
(* Text helpers. *)

\* Optional[...]: None, or a value
None == [none |-> TRUE, val |-> <<>>]
Some(v) == [none |-> FALSE, val |-> v]

\* the exit code of a process that has not exited
Running == -1

Min2(a, b) == IF a < b THEN a ELSE b

\* str.startswith
StartsWith(s, prefix) ==
    /\ Len(s) >= Len(prefix)
    /\ SubSeq(s, 1, Len(prefix)) = prefix

\* the 'in' test of a character in a string
CharIn(c, s) == \E i \in 1..Len(s) : s[i] = c

DigitChar == <<"0", "1", "2", "3", "4", "5", "6", "7", "8", "9">>

RECURSIVE NatStr(_)
NatStr(n) ==
    IF n < 10 THEN <<DigitChar[n + 1]>>
    ELSE NatStr(n \div 10) \o <<DigitChar[(n % 10) + 1]>>

\* the decimal text an f-string puts for an int
IntStr(n) == IF n < 0 THEN <<"-">> \o NatStr(-n) ELSE NatStr(n)

\* position of the first occurrence of character c in s, 0 when absent
RECURSIVE FindFrom(_, _, _)
FindFrom(s, c, i) ==
    IF i > Len(s) THEN 0
    ELSE IF s[i] = c THEN i
    ELSE FindFrom(s, c, i + 1)

\* position of the last occurrence of character c in s, 0 when absent
RECURSIVE RFindFrom(_, _, _)
RFindFrom(s, c, i) ==
    IF i < 1 THEN 0
    ELSE IF s[i] = c THEN i
    ELSE RFindFrom(s, c, i - 1)

\* the parts of a relative path: split at "/", empty parts dropped
RECURSIVE PathParts(_)
PathParts(s) ==
    IF s = <<>> THEN <<>>
    ELSE LET k == FindFrom(s, "/", 1) IN
         IF k = 0 THEN <<s>>
         ELSE IF k = 1 THEN PathParts(Tail(s))
         ELSE <<SubSeq(s, 1, k - 1)>> \o PathParts(SubSeq(s, k + 1, Len(s)))

\* fnmatch.fnmatchcase on one path part: * any run, ? one character
RECURSIVE FnMatch(_, _)
FnMatch(name, pat) ==
    IF pat = <<>> THEN name = <<>>
    ELSE IF Head(pat) = "*"
         THEN \/ FnMatch(name, Tail(pat))
              \/ (name # <<>> /\ FnMatch(Tail(name), pat))
    ELSE IF Head(pat) = "?"
         THEN name # <<>> /\ FnMatch(Tail(name), Tail(pat))
    ELSE name # <<>> /\ Head(name) = Head(pat)
                     /\ FnMatch(Tail(name), Tail(pat))

\* Path(filepath).match(pattern) for a relative pattern: the pattern's parts
\* are matched against the path's last parts, from the right
PathMatch(filepath, pattern) ==
    LET parts == PathParts(filepath)
        pat_parts == PathParts(pattern)
        n == Len(parts)
        m == Len(pat_parts)
    IN  /\ m <= n
        /\ \A k \in 1..m : FnMatch(parts[n - m + k], pat_parts[k])

-----------------------------------------------------------------------------
(* get_file_diff, lines 74-112. *)

\* line 91: the test for a diff metadata line
IsHeaderLine(line) ==
    \/ StartsWith(line, <<"@", "@">>)
    \/ StartsWith(line, <<"+", "+", "+">>)
    \/ StartsWith(line, <<"-", "-", "-">>)

\* line 108: the truncation marker, one line of text
TruncationMarker(max_lines_per_file) ==
    <<".", ".", ".", " ", "(", "diff truncated at ">>
        \o IntStr(max_lines_per_file) \o <<" lines)">>

\* lines 90-100: the scan, from 1-based position i (Python's i is i - 1)
RECURSIVE ScanDiff(_, _, _, _)
ScanDiff(diff_lines, i, header_lines, content_lines) ==
    IF i > Len(diff_lines)
    THEN [header_lines |-> header_lines, content_lines |-> content_lines]
    ELSE LET line == diff_lines[i] IN
         IF IsHeaderLine(line)
         THEN IF Len(header_lines) < HeaderCap
              THEN ScanDiff(diff_lines, i + 1,
                            Append(header_lines, line), content_lines)
              ELSE [header_lines |-> header_lines,
                    content_lines |->
                        content_lines \o SubSeq(diff_lines, i, Len(diff_lines))]
         ELSE IF i - 1 < LeadingLines
              THEN ScanDiff(diff_lines, i + 1,
                            Append(header_lines, line), content_lines)
              ELSE ScanDiff(diff_lines, i + 1,
                            header_lines, Append(content_lines, line))

\* a faulty variant of NeedsTruncation: >= for >
NeedsTruncationAtBudget(diff_lines, max_lines_per_file) ==
    Len(diff_lines) >= max_lines_per_file

\* line 85
NeedsTruncation(diff_lines, max_lines_per_file) ==
    Len(diff_lines) > max_lines_per_file

\* Python's content_lines[:remaining_lines] for remaining_lines > 0
SliceTo(s, n) == SubSeq(s, 1, Min2(n, Len(s)))

\* lines 83-110 on the lines git printed: the lists the function holds when it
\* returns, and ret, the list it returns
TruncateDiff(diff_lines, max_lines_per_file) ==
    IF NeedsTruncation(diff_lines, max_lines_per_file)
    THEN LET scan == ScanDiff(diff_lines, 1, <<>>, <<>>)
             header_lines == scan.header_lines
             remaining_lines == max_lines_per_file - Len(header_lines) - 1
             content_lines ==
                 IF remaining_lines > 0
                 THEN SliceTo(scan.content_lines, remaining_lines)
                 ELSE scan.content_lines
         IN  [truncated |-> TRUE,
              header_lines |-> header_lines,
              content_lines |-> content_lines,
              ret |-> Append(header_lines \o content_lines,
                             TruncationMarker(max_lines_per_file))]
    ELSE [truncated |-> FALSE, header_lines |-> <<>>, content_lines |-> <<>>,
          ret |-> diff_lines]

\* a run of git: its exit code and what it printed; check_output raises
\* CalledProcessError exactly when the exit code is not 0
GitOk(out) == [returncode |-> 0, out |-> out]
GitFailed == [returncode |-> 128, out |-> <<>>]

\* lines 76-112: get_file_diff given what the git run did
get_file_diff(git_diff, max_lines_per_file) ==
    IF git_diff.returncode # 0 THEN <<>>
    ELSE TruncateDiff(git_diff.out, max_lines_per_file).ret

-----------------------------------------------------------------------------
(* should_include_file, lines 155-168. *)

\* lines 160-162: the loop over the exclude patterns, from position i
RECURSIVE ExcludeLoop(_, _, _)
ExcludeLoop(filepath, patterns, i) ==
    IF i > Len(patterns) THEN FALSE
    ELSE IF PathMatch(filepath, patterns[i]) THEN TRUE
    ELSE ExcludeLoop(filepath, patterns, i + 1)

\* line 166: any(path.match(pattern) for pattern in include_patterns)
RECURSIVE AnyMatch(_, _, _)
AnyMatch(filepath, patterns, i) ==
    IF i > Len(patterns) THEN FALSE
    ELSE IF PathMatch(filepath, patterns[i]) THEN TRUE
    ELSE AnyMatch(filepath, patterns, i + 1)

\* a faulty variant of should_include_file: the include list is consulted first
should_include_file_include_first(filepath, include, exclude) ==
    IF include # <<>> /\ AnyMatch(filepath, include, 1) THEN TRUE
    ELSE IF ExcludeLoop(filepath, exclude, 1) THEN FALSE
    ELSE include = <<>>

should_include_file(filepath, include, exclude) ==
    IF ExcludeLoop(filepath, exclude, 1) THEN FALSE
    ELSE IF include # <<>> THEN AnyMatch(filepath, include, 1)
    ELSE TRUE

-----------------------------------------------------------------------------
(* format_status, lines 135-152. *)

status_map(code) ==
    CASE code = <<"A">> -> <<"Added">>
      [] code = <<"M">> -> <<"Modified">>
      [] code = <<"D">> -> <<"Deleted">>
      [] code = <<"R">> -> <<"Renamed">>
      [] code = <<"C">> -> <<"Copied">>
      [] code = <<"T">> -> <<"Type changed">>
      [] code = <<"U">> -> <<"Unmerged">>
      [] OTHER -> code

format_status(status) ==
    IF StartsWith(status, <<"R">>) \/ StartsWith(status, <<"C">>)
    THEN status_map(<<status[1]>>)
    ELSE status_map(status)

-----------------------------------------------------------------------------
(* get_file_stats, lines 115-132. *)

\* what git diff --cached --numstat may do: fail, print nothing, print
\* counts, or print the "-" placeholders of a binary file; the text printed
\* is given stripped and split at tabs (line 125)
NumstatOutcomes ==
    { GitFailed, GitOk(<<>>), GitOk(<<"3", "1", "path">>),
      GitOk(<<"-", "-", "path">>) }

get_file_stats(numstat) ==
    IF numstat.returncode # 0 THEN <<>>
    ELSE LET parts == numstat.out IN
         IF parts # <<>> /\ Len(parts) >= 2
              /\ parts[1] # "-" /\ parts[2] # "-"
         THEN <<"(+", parts[1], "/-", parts[2], ")">>
         ELSE <<>>

-----------------------------------------------------------------------------
(* get_staged_changes, lines 47-71. *)

\* line 62: line.strip() is empty
IsBlank(line) == \A i \in 1..Len(line) : line[i] \in {" ", "\t"}

\* lines 61-69 on the lines git printed, from position i
RECURSIVE ParseStatusLines(_, _)
ParseStatusLines(status_output, i) ==
    IF i > Len(status_output) THEN <<>>
    ELSE LET line == status_output[i]
             tab == FindFrom(line, "\t", 1)
             rest == ParseStatusLines(status_output, i + 1)
         IN  IF IsBlank(line) THEN rest
             ELSE IF tab = 0 THEN rest
             ELSE <<[status |-> SubSeq(line, 1, tab - 1),
                     filepath |-> SubSeq(line, tab + 1, Len(line))]>> \o rest

get_staged_changes(git_status) ==
    IF git_status.returncode # 0 THEN <<>>
    ELSE ParseStatusLines(git_status.out, 1)

-----------------------------------------------------------------------------
(* Path.suffix.lower() and sorted(), lines 211 and 216. *)

UpperChars == <<"A", "B", "C", "D", "E", "F", "G", "H", "I", "J", "K", "L", "M",
                "N", "O", "P", "Q", "R", "S", "T", "U", "V", "W", "X", "Y", "Z">>
LowerChars == <<"a", "b", "c", "d", "e", "f", "g", "h", "i", "j", "k", "l", "m",
                "n", "o", "p", "q", "r", "s", "t", "u", "v", "w", "x", "y", "z">>

LowerChar(c) ==
    IF \E i \in DOMAIN UpperChars : UpperChars[i] = c
    THEN LowerChars[CHOOSE i \in DOMAIN UpperChars : UpperChars[i] = c]
    ELSE c

\* str.lower
Lower(s) == [i \in DOMAIN s |-> LowerChar(s[i])]

\* PurePath.suffix: the last part from its last dot on, when that dot is
\* neither the part's first nor its last character
Suffix(filepath) ==
    LET parts == PathParts(filepath) IN
    IF parts = <<>> THEN <<>>
    ELSE LET name == parts[Len(parts)]
             i == RFindFrom(name, ".", Len(name))
         IN  IF 1 < i /\ i < Len(name) THEN SubSeq(name, i, Len(name))
             ELSE <<>>

\* line 211: Path(filepath).suffix.lower() or 'no_extension'
ExtensionOf(filepath) ==
    LET ext == Lower(Suffix(filepath)) IN
    IF ext # <<>> THEN ext
    ELSE <<"n", "o", "_", "e", "x", "t", "e", "n", "s", "i", "o", "n">>

\* the characters of the model in code-point order
CodePointOrder ==
    <<"\t", " ", "(", ")", "*", "+", "-", ".", "/">> \o DigitChar
        \o <<"?", "@">> \o UpperChars \o <<"_">> \o LowerChars

CodePoint(c) == CHOOSE i \in DOMAIN CodePointOrder : CodePointOrder[i] = c

\* Python's < on str
RECURSIVE StrLess(_, _)
StrLess(a, b) ==
    IF b = <<>> THEN FALSE
    ELSE IF a = <<>> THEN TRUE
    ELSE IF Head(a) = Head(b) THEN StrLess(Tail(a), Tail(b))
    ELSE CodePoint(Head(a)) < CodePoint(Head(b))

\* sorted() of a set of strings
RECURSIVE Sorted(_)
Sorted(S) ==
    IF S = {} THEN <<>>
    ELSE LET least == CHOOSE x \in S : \A y \in S \ {x} : StrLess(x, y)
         IN  <<least>> \o Sorted(S \ {least})

\* ', '.join
RECURSIVE JoinComma(_)
JoinComma(strs) ==
    IF strs = <<>> THEN <<>>
    ELSE IF Len(strs) = 1 THEN strs[1]
    ELSE strs[1] \o <<",", " ">> \o JoinComma(Tail(strs))

-----------------------------------------------------------------------------
(* get_repo_root, lines 34-44. *)

RepoDir == <<"/", "r", "e", "p", "o">>

\* what git rev-parse --show-toplevel may do: print the work tree's root,
\* exit non-zero, or exit 0 having printed nothing
RevParseOutcomes == { GitOk(RepoDir), GitFailed, GitOk(<<>>) }

\* Path(output): Path('') is the current directory, Path('.')
PathOf(text) == IF text = <<>> THEN <<".">> ELSE text

get_repo_root(rev_parse) ==
    IF rev_parse.returncode # 0 THEN None
    ELSE Some(PathOf(rev_parse.out))

\* repo_root / filepath, as_posix()
JoinPath(root, filepath) ==
    IF root = <<".">> THEN filepath ELSE (root \o <<"/">>) \o filepath

-----------------------------------------------------------------------------
(* is_binary_file, lines 15-31. *)

\* what the path is on disk: nothing, a directory, or a file whose first
\* 1024 bytes hold a null byte, do not decode as UTF-8, cannot be read
\* (PermissionError), or are text
FileKinds ==
    { "missing", "dir", "null_bytes", "undecodable", "unreadable", "text" }

is_binary_file(kind) ==
    IF kind = "unreadable" THEN TRUE       \* line 30: PermissionError
    ELSE IF kind = "missing" THEN TRUE     \* line 30: FileNotFoundError
    ELSE IF kind = "null_bytes" THEN TRUE  \* line 23
    ELSE IF kind = "undecodable" THEN TRUE \* line 30: UnicodeDecodeError
    ELSE FALSE                             \* line 29

-----------------------------------------------------------------------------
(* The values the pipeline's variables hold while one pure function is     *)
(* exercised on its own.                                                    *)

NoCall == [fn |-> "none"]

PipelineIdle ==
    /\ args = NoCall
    /\ pc = "idle"
    /\ repo_root = None
    /\ include_patterns = <<>>
    /\ exclude_patterns = <<>>
    /\ staged_changes = <<>>
    /\ filtered_changes = <<>>
    /\ output = <<>>
    /\ processed_files = {}
    /\ idx = 0
    /\ result = <<>>
    /\ stdout = <<>>
    /\ stderr = <<>>
    /\ exit_code = Running
    /\ calls = <<>>

-----------------------------------------------------------------------------
(* SpecDiff: get_file_diff on generated unified diffs and budgets.          *)

\* line j of a generated diff: the four lines git prints before the first
\* hunk, then hunks of `hunk` body lines; a dashed body line is the removal of
\* a line that begins with "--" (a Lua or SQL comment), which git prints as
\* "---..."
DiffLine(j, hunk, dashed) ==
    IF j = 1 THEN <<"d", "i", "f", "f", " ", "-", "-", "g", "i", "t">>
    ELSE IF j = 2 THEN <<"i", "n", "d", "e", "x">>
    ELSE IF j = 3 THEN <<"-", "-", "-", " ", "a">>
    ELSE IF j = 4 THEN <<"+", "+", "+", " ", "b">>
    ELSE IF (j - 5) % (hunk + 1) = 0 THEN <<"@", "@", " ">> \o NatStr(j)
    ELSE IF dashed THEN <<"-", "-", "-", " ", "c">> \o NatStr(j)
    ELSE <<"+", "x">> \o NatStr(j)

GeneratedDiff(n, hunk, dashed) == [j \in 1..n |-> DiffLine(j, hunk, dashed)]

Diffs ==
    { GeneratedDiff(n, hunk, dashed) :
        n \in 0..MaxDiffLen, hunk \in 1..MaxHunk, dashed \in BOOLEAN }

Budgets == (0 - BudgetBelow)..(MaxDiffLen + 1)

InitDiff ==
    /\ PipelineIdle
    /\ \E d \in {GitOk(x) : x \in Diffs} \cup {GitFailed}, m \in Budgets :
          call = [fn |-> "get_file_diff", git_diff |-> d,
                  max_lines_per_file |-> m, returned |-> FALSE,
                  truncated |-> FALSE, header_lines |-> <<>>,
                  content_lines |-> <<>>, ret |-> <<>>]

\* lines 77-110: git printed a diff
GetFileDiffReturns ==
    /\ call.fn = "get_file_diff" /\ ~call.returned
    /\ call.git_diff.returncode = 0
    /\ LET t == TruncateDiff(call.git_diff.out, call.max_lines_per_file) IN
       call' = [call EXCEPT !.returned = TRUE,
                            !.truncated = t.truncated,
                            !.header_lines = t.header_lines,
                            !.content_lines = t.content_lines,
                            !.ret = get_file_diff(call.git_diff,
                                                  call.max_lines_per_file)]
    /\ UNCHANGED pipeline_vars

\* lines 111-112: git exited non-zero
GetFileDiffFails ==
    /\ call.fn = "get_file_diff" /\ ~call.returned
    /\ call.git_diff.returncode # 0
    /\ call' = [call EXCEPT !.returned = TRUE,
                            !.ret = get_file_diff(call.git_diff,
                                                  call.max_lines_per_file)]
    /\ UNCHANGED pipeline_vars

NextDiff == GetFileDiffReturns \/ GetFileDiffFails

SpecDiff == InitDiff /\ [][NextDiff]_vars

DiffReturned ==
    /\ call.fn = "get_file_diff" /\ call.returned
    /\ call.git_diff.returncode = 0

-----------------------------------------------------------------------------
(* SpecFilter: should_include_file on paths and pattern lists.              *)

PathA == <<"a", ".", "p", "y">>
PathB == <<"b", ".", "p", "y", "c">>
PathC == <<"l", "u", "a", "/", "c", ".", "l", "u", "a">>
PathD == <<"l", "u", "a", "/", "a", ".", "p", "y">>

FilterPaths == {PathA, PathB, PathC, PathD}

Patterns ==
    { <<"*", ".", "p", "y">>,
      <<"l", "u", "a", "/", "*">>,
      <<"?", ".", "p", "y", "c">>,
      <<"*", ".", "l", "u", "a">> }

PatternLists == UNION { [1..k -> Patterns] : k \in 0..MaxPatterns }

InitFilter ==
    /\ PipelineIdle
    /\ \E p \in FilterPaths, inc \in PatternLists, exc \in PatternLists :
          call = [fn |-> "should_include_file", filepath |-> p,
                  include |-> inc, exclude |-> exc,
                  returned |-> FALSE, ret |-> FALSE]

ShouldIncludeFile ==
    /\ call.fn = "should_include_file" /\ ~call.returned
    /\ call' = [call EXCEPT !.returned = TRUE,
                            !.ret = should_include_file(call.filepath,
                                                        call.include,
                                                        call.exclude)]
    /\ UNCHANGED pipeline_vars

NextFilter == ShouldIncludeFile

SpecFilter == InitFilter /\ [][NextFilter]_vars

-----------------------------------------------------------------------------
(* Properties of get_file_diff, checked under SpecDiff.                     *)

Last(s) == s[Len(s)]

\* C1: whenever get_file_diff truncates (the diff has more lines than
\* max_lines_per_file), the list it returns, marker included, has at most
\* max_lines_per_file lines; and for every budget, zero and negative ones
\* included, the call returns with the marker as its last line.
C1_TruncatedWithinBudget ==
    (DiffReturned /\ Len(call.git_diff.out) > call.max_lines_per_file) =>
        /\ call.ret # <<>>
        /\ Last(call.ret) = TruncationMarker(call.max_lines_per_file)
        /\ Len(call.ret) <= call.max_lines_per_file

\* C2: a diff of at most max_lines_per_file lines is returned as it is: the
\* same lines in the same order, and no truncation marker.
C2_WithinBudgetVerbatim ==
    (DiffReturned /\ Len(call.git_diff.out) <= call.max_lines_per_file) =>
        /\ call.ret = call.git_diff.out
        /\ ~call.truncated

\* a diff of more than ten lines, hunk markers past the tenth among them,
\* that fills its budget exactly and came back whole
C2_Witness ==
    /\ DiffReturned
    /\ Len(call.git_diff.out) = call.max_lines_per_file
    /\ Len(call.git_diff.out) > LeadingLines
    /\ \E j \in (LeadingLines + 1)..Len(call.git_diff.out) :
          IsHeaderLine(call.git_diff.out[j])
    /\ call.ret = call.git_diff.out

\* C9: when get_file_diff truncates, the content lines between the header
\* lines and the marker number at most max_lines_per_file - len(header_lines)
\* - 1; when that remaining budget is <= 0 there are none, and the list
\* returned is header_lines followed by the marker.
C9_ContentWithinRemainingBudget ==
    (DiffReturned /\ call.truncated) =>
        LET remaining_lines ==
                call.max_lines_per_file - Len(call.header_lines) - 1
            marker == TruncationMarker(call.max_lines_per_file)
        IN  /\ call.ret = (call.header_lines \o call.content_lines)
                              \o <<marker>>
            /\ remaining_lines > 0 =>
                  Len(call.content_lines) <= remaining_lines
            /\ remaining_lines <= 0 =>
                  /\ call.content_lines = <<>>
                  /\ call.ret = Append(call.header_lines, marker)

-----------------------------------------------------------------------------
(* Properties of should_include_file, checked under SpecFilter.             *)

Range(s) == { s[i] : i \in DOMAIN s }

\* the reorderings of a list
Perms(s) ==
    { t \in [DOMAIN s -> Range(s)] :
        \A x \in Range(s) :
            Cardinality({ i \in DOMAIN s : t[i] = x })
                = Cardinality({ i \in DOMAIN s : s[i] = x }) }

MatchesAny(filepath, patterns) ==
    \E i \in DOMAIN patterns : PathMatch(filepath, patterns[i])

\* C3: should_include_file returns false whenever the path matches an exclude
\* pattern, also when it matches an include pattern too; otherwise it returns
\* true iff the include list is empty or the path matches an include pattern;
\* and reordering either list does not change the result.
C3_ExcludeWinsThenInclude ==
    (call.fn = "should_include_file" /\ call.returned) =>
        /\ call.ret =
              (/\ ~MatchesAny(call.filepath, call.exclude)
               /\ (call.include = <<>>
                      \/ MatchesAny(call.filepath, call.include)))
        /\ \A inc \in Perms(call.include), exc \in Perms(call.exclude) :
              should_include_file(call.filepath, inc, exc) = call.ret

\* a path that matches an include pattern and the second of two exclude
\* patterns, and was dropped
C3_Witness ==
    /\ call.fn = "should_include_file" /\ call.returned
    /\ MatchesAny(call.filepath, call.include)
    /\ Len(call.exclude) = 2
    /\ ~PathMatch(call.filepath, call.exclude[1])
    /\ PathMatch(call.filepath, call.exclude[2])
    /\ call.ret = FALSE

-----------------------------------------------------------------------------
(* Spec: one run of main, lines 267-338, around get_staged_diff,            *)
(* lines 171-264.                                                           *)

\* a smaller budget than the default, one that truncates a generated diff
SmallMaxLines == 2

\* line 173 and line 294: the default of context_lines
DefaultContext == 3

\* line 219: "=" * 50
RuleWidth == 50

\* line 183: the built-in exclude patterns
DefaultExcludes ==
    << <<"*", ".", "p", "y", "c">>,
       <<"*", ".", "p", "y", "o">>,
       <<"_", "_", "p", "y", "c", "a", "c", "h", "e", "_", "_", "/", "*">>,
       <<".", "g", "i", "t", "/", "*">>,
       <<"*", ".", "s", "o">>,
       <<"*", ".", "d", "y", "l", "i", "b">>,
       <<"*", ".", "d", "l", "l">> >>

\* Python's `x or default` on an Optional[List]: None and the empty list are
\* both falsy
OrDefault(opt, default) ==
    IF opt.none \/ opt.val = <<>> THEN default ELSE opt.val

\* the arguments of get_staged_diff (lines 171-178).  main passes None or a
\* non-empty list for include and exclude (nargs='+'); another caller of the
\* function may pass an empty list.
ArgSets ==
    [ max_lines_per_file : {DefaultMaxLines},
      context_lines : {DefaultContext},
      include_stats : BOOLEAN,
      include_patterns :
          { None, Some(<< <<"*", ".", "p", "y">>, <<"*", ".", "p", "y", "c">> >>) },
      exclude_patterns :
          { None, Some(<<>>), Some(<< <<"l", "u", "a", "/", "*">> >>) },
      group_by_type : {FALSE} ]
    \cup
    [ max_lines_per_file : {SmallMaxLines, DefaultMaxLines},
      context_lines : {DefaultContext},
      include_stats : {TRUE},
      include_patterns : {None},
      exclude_patterns : {None},
      group_by_type : BOOLEAN ]

\* the arguments of the runs whose termination is checked: the filter and
\* the stats on and off, the rest at their defaults
FairArgSets ==
    [ max_lines_per_file : {DefaultMaxLines},
      context_lines : {DefaultContext},
      include_stats : BOOLEAN,
      include_patterns :
          { None, Some(<< <<"*", ".", "p", "y">>, <<"*", ".", "p", "y", "c">> >>) },
      exclude_patterns : {None},
      group_by_type : {FALSE} ]

\* lines git diff --cached --name-status may print
RawStatusLines ==
    { <<"M", "\t">> \o PathA,
      <<"D", "\t">> \o PathA,
      <<"D", "\t">> \o PathC,
      <<"R", "1", "0", "0", "\t">> \o PathB,
      <<"w", "a", "r", "n", "i", "n", "g">> }

NameStatusOutcomes ==
    { GitOk(out) : out \in UNION { [1..k -> RawStatusLines] : k \in 0..MaxStaged } }
        \cup {GitFailed}

\* what git diff --cached -- <path> may do for one file of the pipeline
PipelineDiffs ==
    { GitFailed, GitOk(<<>>), GitOk(GeneratedDiff(6, 1, FALSE)) }

\* one line of the report: the f-string that made it and what it holds
Line(kind, path, label, stats, text) ==
    [kind |-> kind, path |-> path, label |-> label, stats |-> stats,
     text |-> text]

TextLine(kind) == Line(kind, <<>>, <<>>, <<>>, <<>>)

\* one probe of the file system or one run of git: the path probed (for git
\* rev-parse, the text it printed) and whether the probe answered yes (for a
\* run of git, whether it exited 0)
Call(op, path, ret) == [op |-> op, path |-> path, ret |-> ret]

\* one write to a stream
Written(what, text, lines) == [what |-> what, text |-> text, lines |-> lines]

\* the process enters main's try block with one of the given argument records
InitFrom(arg_sets) ==
    /\ args \in arg_sets
    /\ pc = "start"
    /\ repo_root = None
    /\ include_patterns = <<>>
    /\ exclude_patterns = <<>>
    /\ staged_changes = <<>>
    /\ filtered_changes = <<>>
    /\ output = <<>>
    /\ processed_files = {}
    /\ idx = 0
    /\ result = <<>>
    /\ stdout = <<>>
    /\ stderr = <<>>
    /\ exit_code = Running
    /\ calls = <<>>
    /\ call = NoCall

Init == InitFrom(ArgSets)

\* a faulty variant of RootMissing: the failed lookup goes unnoticed
RootMissingNever(root) == FALSE

\* line 187: not repo_root
RootMissing(root) == root.none

\* lines 182-190: the defaults, the lookup of the repository root, and the
\* report's first line
LocateRoot ==
    /\ pc = "start"
    /\ \E rev_parse \in RevParseOutcomes :
          LET root == get_repo_root(rev_parse) IN
          /\ repo_root' = root
          /\ calls' = Append(calls, Call("git rev-parse", rev_parse.out,
                                         rev_parse.returncode = 0))
          /\ IF RootMissing(root)
             THEN /\ result' = <<TextLine("Error: Not in a git repository.")>>
                  /\ pc' = "print"
                  /\ UNCHANGED output
             ELSE /\ output' = <<TextLine("=== Staged Changes Summary ===")>>
                  /\ pc' = "list"
                  /\ UNCHANGED result
    /\ include_patterns' = OrDefault(args.include_patterns, <<>>)
    /\ exclude_patterns' = OrDefault(args.exclude_patterns, DefaultExcludes)
    /\ UNCHANGED <<args, staged_changes, filtered_changes, processed_files,
                   idx, stdout, stderr, exit_code, call>>

\* lines 198-201: the list comprehension, from position i
RECURSIVE FilterChanges(_, _, _, _)
FilterChanges(changes, include, exclude, i) ==
    IF i > Len(changes) THEN <<>>
    ELSE LET rest == FilterChanges(changes, include, exclude, i + 1) IN
         IF should_include_file(changes[i].filepath, include, exclude)
         THEN <<changes[i]>> \o rest
         ELSE rest

\* lines 209-216: the "File types" line
FileTypesLine(changes) ==
    LET by_type == { ExtensionOf(changes[i].filepath) : i \in DOMAIN changes }
    IN  Line("\nFile types: {}", <<>>, <<>>, <<>>, JoinComma(Sorted(by_type)))

\* lines 192-221: the staged changes are listed and filtered, and the
\* report's summary lines are written
ListStaged ==
    /\ pc = "list"
    /\ \E git_status \in NameStatusOutcomes :
          LET changes == get_staged_changes(git_status)
              filtered == FilterChanges(changes, include_patterns,
                                        exclude_patterns, 1)
          IN
          /\ calls' = Append(calls, Call("git diff --name-status", <<>>,
                                         git_status.returncode = 0))
          /\ stderr' = IF git_status.returncode # 0
                       THEN Append(stderr,
                                Written("Error: Not in a git repository or git command failed",
                                        <<>>, <<>>))
                       ELSE stderr
          /\ staged_changes' = changes
          /\ IF changes = <<>>
             THEN /\ output' = Append(output, TextLine("No staged changes found."))
                  /\ result' = Append(output, TextLine("No staged changes found."))
                  /\ pc' = "print"
                  /\ UNCHANGED <<filtered_changes, idx>>
             ELSE IF filtered = <<>>
             THEN /\ filtered_changes' = filtered
                  /\ output' = Append(output,
                                 TextLine("No files match the specified patterns."))
                  /\ result' = Append(output,
                                 TextLine("No files match the specified patterns."))
                  /\ pc' = "print"
                  /\ UNCHANGED idx
             ELSE /\ filtered_changes' = filtered
                  /\ output' =
                        (output
                           \o (IF args.group_by_type
                               THEN <<FileTypesLine(filtered)>> ELSE <<>>))
                           \o << Line("\nTotal files: {}", <<>>, <<>>, <<>>,
                                      IntStr(Len(filtered))),
                                 Line("=" , <<>>, <<>>, <<>>, IntStr(RuleWidth)) >>
                  /\ idx' = 1
                  /\ pc' = "loop"
                  /\ UNCHANGED result
    /\ UNCHANGED <<args, repo_root, include_patterns, exclude_patterns,
                   processed_files, stdout, exit_code, call>>

\* a faulty variant of ProcessedAdd: the path is not remembered
ProcessedAddNothing(processed, filepath) == processed

\* line 226: processed_files.add(filepath)
ProcessedAdd(processed, filepath) == processed \cup {filepath}

\* a faulty variant of IsMissing: the status is not consulted
IsMissingWhateverStatus(exists, status) == ~exists

\* line 236: not absolute_path.exists() and 'D' not in status
IsMissing(exists, status) == ~exists /\ ~CharIn("D", status)

\* a faulty variant of AfterEntry: a break in place of the continue
AfterEntryBreak(i, n) == n + 1

\* lines 238, 242, 248 and the end of the loop body: on to the next change
AfterEntry(i, n) == i + 1

\* lines 227-262: the body of the loop for one change that has not been
\* processed yet: the lines it adds to the report and the probes and git
\* runs it makes, given what the path is on disk and what git does
FileBlock(change, kind, numstat, git_diff) ==
    LET filepath == change.filepath
        status == change.status
        absolute_path == JoinPath(repo_root.val, filepath)
        exists == kind # "missing"
        is_dir == kind = "dir"
        label == format_status(status)
        probe1 == <<Call("exists", absolute_path, exists)>>
        probe2 == probe1 \o <<Call("exists", absolute_path, exists)>>
                    \o (IF exists THEN <<Call("is_dir", absolute_path, is_dir)>>
                        ELSE <<>>)
        binary == exists /\ is_binary_file(kind)
        probe3 == probe2 \o <<Call("exists", absolute_path, exists)>>
                    \o (IF exists
                        THEN <<Call("is_binary_file", absolute_path, binary)>>
                        ELSE <<>>)
        stats == IF args.include_stats THEN get_file_stats(numstat) ELSE <<>>
        stat_call(path) ==
            IF args.include_stats
            THEN <<Call("git diff --numstat", path, numstat.returncode = 0)>>
            ELSE <<>>
        diff_lines == get_file_diff(git_diff, args.max_lines_per_file)
    IN
    IF IsMissing(exists, status)
    THEN [lines |-> <<Line("\nFile not found: {} ({})", filepath, label,
                           <<>>, <<>>)>>,
          calls |-> probe1]
    ELSE IF exists /\ is_dir
    THEN [lines |-> <<Line("\nDirectory {}: {}", filepath, label, <<>>, <<>>)>>,
          calls |-> probe2]
    ELSE IF binary
    THEN [lines |-> <<Line("\nBinary file {}: {} {}", filepath, label, stats,
                           <<>>)>>,
          calls |-> probe3 \o stat_call(filepath)]
    ELSE [lines |->
              (<<Line("\n{} ({}) {}", absolute_path, label, stats, <<>>),
                 TextLine("-")>>
                 \o (IF diff_lines # <<>>
                     THEN [i \in DOMAIN diff_lines |->
                             Line("diff", <<>>, <<>>, <<>>, diff_lines[i])]
                     ELSE <<TextLine("No diff available.")>>))
                 \o <<TextLine("")>>,
          calls |->
              (probe3 \o stat_call(absolute_path))
                 \o <<Call("git diff", absolute_path, git_diff.returncode = 0)>>]

\* lines 223-262: one iteration of the loop
ProcessFile ==
    /\ pc = "loop"
    /\ idx <= Len(filtered_changes)
    /\ LET change == filtered_changes[idx] IN
       IF change.filepath \in processed_files
       THEN /\ idx' = idx + 1
            /\ UNCHANGED <<processed_files, stdout, output, calls>>
       ELSE \E kind \in FileKinds :
            \E numstat \in (IF args.include_stats /\ kind \notin {"dir"}
                            THEN NumstatOutcomes ELSE {GitFailed}) :
            \E git_diff \in (IF kind \in {"missing", "text"}
                             THEN PipelineDiffs ELSE {GitFailed}) :
               LET block == FileBlock(change, kind, numstat, git_diff) IN
               /\ processed_files' = ProcessedAdd(processed_files, change.filepath)
               /\ stdout' = Append(stdout,
                               Written("print(absolute_path)",
                                       JoinPath(repo_root.val, change.filepath),
                                       <<>>))
               /\ output' = output \o block.lines
               /\ calls' = calls \o block.calls
               /\ idx' = AfterEntry(idx, Len(filtered_changes))
    /\ UNCHANGED <<args, pc, repo_root, include_patterns, exclude_patterns,
                   staged_changes, filtered_changes, result, stderr,
                   exit_code, call>>

\* line 264: the loop is over and the report is returned to main
ReturnReport ==
    /\ pc = "loop"
    /\ idx > Len(filtered_changes)
    /\ result' = output
    /\ pc' = "print"
    /\ UNCHANGED <<args, repo_root, include_patterns, exclude_patterns,
                   staged_changes, filtered_changes, output, processed_files,
                   idx, stdout, stderr, exit_code, calls, call>>

\* the process is gone: its locals with it
Exited(code) ==
    /\ pc' = "exited"
    /\ exit_code' = code
    /\ repo_root' = None
    /\ include_patterns' = <<>>
    /\ exclude_patterns' = <<>>
    /\ staged_changes' = <<>>
    /\ filtered_changes' = <<>>
    /\ output' = <<>>
    /\ processed_files' = {}
    /\ idx' = 0
    /\ result' = <<>>
    /\ UNCHANGED <<args, call>>

\* line 332: print(result), and the process ends
PrintResult ==
    /\ pc = "print"
    /\ stdout' = Append(stdout, Written("print(result)", <<>>, result))
    /\ Exited(0)
    /\ UNCHANGED <<stderr, calls>>

\* lines 333-335: a KeyboardInterrupt reaches main's try block
Interrupt ==
    /\ pc \in {"start", "list", "loop", "print"}
    /\ stderr' = Append(stderr, Written("\nOperation cancelled.", <<>>, <<>>))
    /\ Exited(1)
    /\ UNCHANGED <<stdout, calls>>

\* lines 336-338: an exception no function catches reaches main: git cannot
\* be run at all (check_output raises an OSError, lines 37 and 51), or, in the
\* loop, the first absolute_path.exists() of a change raises PermissionError
\* (line 236), after the path was printed (line 234)
UnhandledError ==
    /\ \/ pc \in {"start", "list"} /\ UNCHANGED stdout
       \/ /\ pc = "loop"
          /\ idx <= Len(filtered_changes)
          /\ filtered_changes[idx].filepath \notin processed_files
          /\ stdout' = Append(stdout,
                          Written("print(absolute_path)",
                                  JoinPath(repo_root.val,
                                           filtered_changes[idx].filepath),
                                  <<>>))
    /\ stderr' = Append(stderr, Written("Error: {}", <<>>, <<>>))
    /\ Exited(1)
    /\ UNCHANGED calls

Next ==
    \/ LocateRoot
    \/ ListStaged
    \/ ProcessFile
    \/ ReturnReport
    \/ PrintResult
    \/ Interrupt
    \/ UnhandledError

Spec == Init /\ [][Next]_vars

\* the interpreter runs the loop and the statements after it: an enabled
\* step of the process is taken unless a signal or an error ends it first
FairInit == InitFrom(FairArgSets)

FairSpec ==
    /\ FairInit /\ [][Next]_vars
    /\ WF_vars(LocateRoot) /\ WF_vars(ListStaged) /\ WF_vars(ProcessFile)
    /\ WF_vars(ReturnReport) /\ WF_vars(PrintResult)

-----------------------------------------------------------------------------
(* Properties of the pipeline, checked under Spec and FairSpec.             *)

NotFoundKind == "\nFile not found: {} ({})"
DirectoryKind == "\nDirectory {}: {}"
BinaryKind == "\nBinary file {}: {} {}"
HeaderKind == "\n{} ({}) {}"

EntryKinds == {NotFoundKind, DirectoryKind, BinaryKind, HeaderKind}

IsEntry(line) == line.kind \in EntryKinds

\* the report's line opens the block of filepath: a text file's header names
\* the absolute path, the other entries the path as listed
EntryFor(line, root, filepath) ==
    \/ line.kind \in {NotFoundKind, DirectoryKind, BinaryKind}
          /\ line.path = filepath
    \/ line.kind = HeaderKind /\ line.path = JoinPath(root, filepath)

EntriesOf(lines, root, filepath) ==
    { k \in DOMAIN lines : EntryFor(lines[k], root, filepath) }

CallsOf(op, path) == { k \in DOMAIN calls : calls[k].op = op /\ calls[k].path = path }

\* the first occurrences of a list's elements, in order
RECURSIVE Dedup(_, _)
Dedup(s, seen) ==
    IF s = <<>> THEN <<>>
    ELSE IF Head(s) \in seen THEN Dedup(Tail(s), seen)
    ELSE <<Head(s)>> \o Dedup(Tail(s), seen \cup {Head(s)})

PathsOf(changes) == [i \in DOMAIN changes |-> changes[i].filepath]

\* the loop has run over every filtered change and the report is returned
LoopOver == pc = "print" /\ filtered_changes # <<>>

\* the change at position i repeats the path of an earlier filtered change
IsRepeat(i) ==
    \E j \in 1..(i - 1) : filtered_changes[j].filepath = filtered_changes[i].filepath

\* the status of the first filtered change with this path
FirstStatus(filepath) ==
    filtered_changes[CHOOSE i \in DOMAIN filtered_changes :
                        /\ filtered_changes[i].filepath = filepath
                        /\ ~IsRepeat(i)].status

\* C4: the built-in exclude patterns are applied only when the caller gives
\* no exclude list: with an explicit list, the empty one included, a staged
\* path that matches only built-in patterns (and passes the include list) is
\* kept among the filtered changes.
C4_ExplicitExcludeReplacesDefaults ==
    (staged_changes # <<>> /\ ~args.exclude_patterns.none) =>
        \A i \in DOMAIN staged_changes :
            LET filepath == staged_changes[i].filepath IN
            (/\ MatchesAny(filepath, DefaultExcludes)
             /\ ~MatchesAny(filepath, args.exclude_patterns.val)
             /\ (include_patterns = <<>> \/ MatchesAny(filepath, include_patterns)))
                => \E j \in DOMAIN filtered_changes :
                      filtered_changes[j].filepath = filepath

RevParseFailed ==
    \E k \in DOMAIN calls :
        calls[k].op = "git rev-parse" /\ ~calls[k].ret

RevParseFailedOrEmpty ==
    \E k \in DOMAIN calls :
        calls[k].op = "git rev-parse" /\ (~calls[k].ret \/ calls[k].path = <<>>)

OnlyRevParseRan == \A k \in DOMAIN calls : calls[k].op = "git rev-parse"

C6_ErrorLeavesStdoutEmpty ==
    (pc = "exited" /\ exit_code = 1) =>
        /\ stderr # <<>>
        /\ stderr[Len(stderr)].what \in {"\nOperation cancelled.", "Error: {}"}
        /\ stdout = <<>>

\* every processed path has exactly one block in the report, and when the
\* loop is over every filtered path has been processed
BlockOnce ==
    pc \in {"loop", "print"} =>
        /\ \A p \in processed_files :
              Cardinality(EntriesOf(output, repo_root.val, p)) = 1
        /\ \A i \in DOMAIN filtered_changes :
              (i < idx \/ LoopOver) =>
                 Cardinality(EntriesOf(output, repo_root.val,
                                       filtered_changes[i].filepath)) = 1

\* the iteration for a repeated path leaves the report, the streams and the
\* log of probes and git runs as they were
RepeatHasNoEffect ==
    (/\ pc = "loop" /\ pc' = "loop"
     /\ idx <= Len(filtered_changes)
     /\ IsRepeat(idx)) =>
        /\ output' = output
        /\ calls' = calls
        /\ stdout' = stdout
        /\ stderr' = stderr
        /\ idx' = idx + 1

\* C7: a path that occurs more than once among the filtered changes gets
\* exactly one block in the report, that of its first occurrence; a later
\* occurrence adds no output and makes no existence check, binary probe,
\* stats fetch or diff fetch.
C7_RepeatedPathOneBlock == []BlockOnce /\ [][RepeatHasNoEffect]_vars

\* two filtered changes with one path, the loop over, and one block
C7_Witness ==
    /\ LoopOver
    /\ Len(filtered_changes) = 2
    /\ IsRepeat(2)
    /\ filtered_changes[1].status # filtered_changes[2].status
    /\ Cardinality({ k \in DOMAIN output : IsEntry(output[k]) }) = 1

\* the changes whose iteration is done and that were not skipped as repeats
Processed == { i \in DOMAIN filtered_changes : (i < idx \/ LoopOver) /\ ~IsRepeat(i) }

FoundMissing(i) ==
    CallsOf("exists", JoinPath(repo_root.val, filtered_changes[i].filepath)) # {}
    /\ \A k \in CallsOf("exists",
                        JoinPath(repo_root.val, filtered_changes[i].filepath)) :
          ~calls[k].ret

\* C8: a Deleted change whose path is not on disk is not reported as "File
\* not found": it gets a text-file block, with the stats (when enabled) and
\* the diff fetched; a path that is not on disk with any other status gets a
\* "File not found" line, and neither stats nor diff are fetched.
C8_DeletedMissingIsDiffed ==
    pc \in {"loop", "print"} =>
        \A i \in Processed :
            LET filepath == filtered_changes[i].filepath
                absolute_path == JoinPath(repo_root.val, filepath)
                kinds == { output[k].kind : k \in EntriesOf(output, repo_root.val, filepath) }
                fetched == CallsOf("git diff --numstat", absolute_path)
                             \cup CallsOf("git diff --numstat", filepath)
                             \cup CallsOf("git diff", absolute_path)
                             \cup CallsOf("git diff", filepath)
            IN  FoundMissing(i) =>
                  IF filtered_changes[i].status = <<"D">>
                  THEN /\ kinds = {HeaderKind}
                       /\ CallsOf("git diff", absolute_path) # {}
                       /\ (args.include_stats <=>
                             CallsOf("git diff --numstat", absolute_path) # {})
                  ELSE /\ kinds = {NotFoundKind}
                       /\ fetched = {}

\* the loop is over two missing paths: a Deleted one, diffed with the stats
\* fetched, and a Modified one, reported as not found
C8_Witness ==
    /\ LoopOver
    /\ args.include_stats
    /\ \E i, j \in Processed :
          /\ FoundMissing(i) /\ filtered_changes[i].status = <<"D">>
          /\ CallsOf("git diff",
                     JoinPath(repo_root.val, filtered_changes[i].filepath)) # {}
          /\ FoundMissing(j) /\ filtered_changes[j].status = <<"M">>
          /\ EntriesOf(output, repo_root.val, filtered_changes[j].filepath) # {}

\* the blocks of the report, in order, are those of the filtered paths in
\* the order of their first occurrences in the lister's output
EntriesInListedOrder ==
    LET Included(change) ==
            should_include_file(change.filepath, include_patterns, exclude_patterns)
        expected == Dedup(PathsOf(SelectSeq(staged_changes, Included)), {})
        entries == SelectSeq(result, IsEntry)
    IN  /\ Len(entries) = Len(expected)
        /\ \A k \in DOMAIN expected :
              EntryFor(entries[k], repo_root.val, expected[k])

Aborted == pc = "exited" /\ exit_code = 1

\* C10: once the filtered list is non-empty the loop runs to its end,
\* whatever recoverable condition a file meets (missing, directory, binary or
\* undecodable, diff or stats fetch failed): unless an interrupt or an
\* unhandled error ends the process, the report is returned with exactly one
\* entry for every distinct filtered path, in the order of the paths' first
\* occurrences in the lister's output.
C10_LoopRunsToEnd ==
    (pc = "loop") ~> ((LoopOver /\ EntriesInListedOrder) \/ Aborted)

\* a report of two entries, both recoverable conditions: a path not found,
\* then a text file whose diff could not be fetched
C10_Witness ==
    /\ LoopOver
    /\ EntriesInListedOrder
    /\ LET entries == SelectSeq(result, IsEntry) IN
       /\ Len(entries) = 2
       /\ entries[1].kind = NotFoundKind
       /\ entries[2].kind = HeaderKind
    /\ \E k \in DOMAIN calls : calls[k].op = "git diff" /\ ~calls[k].ret
    /\ \E k \in DOMAIN result : result[k].kind = "No diff available."

=============================================================================
